---------------------------- MODULE Spec2Model ----------------------------
(***************************************************************************)
(* Model of src/src/check_bbs_bounds.rs: the BoundCheckCircuit (min <      *)
(* value < max) and the flow of tests::bound_check_message, which proves   *)
(* the bound with a LegoGroth16 proof and links the committed value to a   *)
(* BBS+ signed message through a composite proof.                          *)
(*                                                                         *)
(* Field elements are the integers 0..p-1 of a small prime field; the      *)
(* comparison gadget FpVar::enforce_cmp is computed bit for bit as         *)
(* ark_r1cs_std does (lowest bit of 2*(a-b) mod p, both operands checked   *)
(* to be <= (p-1)/2).  Auxiliary variables that the gadget allocates       *)
(* inside the library are not tracked: the constraint system records the   *)
(* variables that generate_constraints itself allocates.                   *)
(*                                                                         *)
(* legogroth16 and proof_system are not part of the source; they are       *)
(* modelled as the ideal functionalities the specification describes:      *)
(* group elements are coefficient vectors over independent bases, a        *)
(* SNARK proof records whether its constraint system was satisfied and for *)
(* which public inputs, Schnorr responses are symbolic (blinding, value)   *)
(* pairs and the Fiat-Shamir hash is injective.                            *)
(***************************************************************************)
EXTENDS Integers, Sequences, FiniteSets, TLC

VARIABLES
    pc,            \* position in tests::bound_check_message
    field,         \* modulus p of ConstraintF
    msg_val,       \* messages[msg_idx], the signed attribute
    setup_res,     \* result of generate_random_parameters
    params,        \* Option of the LegoGroth16 parameters (setup)
    circuit,       \* the BoundCheckCircuit handed to create_random_proof
    cs,            \* Option of the constraint system of the last synthesis
    v,             \* commitment randomness
    prove_res,     \* result of create_random_proof
    zk_snark,      \* Option of the LegoGroth16 proof
    open_q,        \* Option of the last verify_witness_commitment query
    open_res,      \* its result
    statements,    \* Statements
    meta_statements, \* MetaStatements
    proof_spec,    \* Option of the ProofSpec
    witnesses,     \* Option of the Witnesses
    proof,         \* Option of the composite proof
    snark_q,       \* Option of the public inputs given to verify_proof
    snark_res,     \* result of verify_proof
    agg_q,         \* Option of the ProofSpec given to proof.verify
    agg_res        \* result of proof.verify

vars == <<pc, field, msg_val, setup_res, params, circuit, cs, v, prove_res, zk_snark, open_q,
          open_res, statements, meta_statements, proof_spec, witnesses, proof,
          snark_q, snark_res, agg_q, agg_res>>

----------------------------------------------------------------------------
(* Bounds and program constants *)

MaxModulus == 7
MaxBlind == 2

message_count == 10
commit_witness_count == 1
msg_idx == 4

IsPrime(n) == n > 1 /\ \A d \in 2..(n - 1) : n % d # 0
Moduli == {q \in 5..MaxModulus : IsPrime(q)}
Fr(p) == 0..(p - 1)

(* Option<T> *)
None == << >>
Some(x) == <<x>>
IsSome(o) == Len(o) = 1
Unwrap(o) == o[1]
OptionOf(S) == {None} \cup {Some(x) : x \in S}

Ok == "Ok"
AssignmentMissing == "AssignmentMissing"

----------------------------------------------------------------------------
(* ark_r1cs_std: FpVar comparison gadget, as called by the circuit *)

MODULUS_MINUS_ONE_DIV_TWO(p) == (p - 1) \div 2

sub(a, b, p) == (a - b + p) % p
double(a, p) == (2 * a) % p
first_bit(a) == a % 2

is_smaller_than_unchecked_flipped(a, b, p) == first_bit(double(sub(b, a, p), p)) = 1

(* (self - other).double().to_bits_le().first() *)
is_smaller_than_unchecked(a, b, p) == first_bit(double(sub(a, b, p), p)) = 1

enforce_smaller_or_equal_than_mod_minus_one_div_two(a, p) ==
    a <= MODULUS_MINUS_ONE_DIV_TWO(p)

enforce_smaller_than(a, b, p) ==
    /\ enforce_smaller_or_equal_than_mod_minus_one_div_two(a, p)
    /\ enforce_smaller_or_equal_than_mod_minus_one_div_two(b, p)
    /\ is_smaller_than_unchecked(a, b, p)

process_cmp_inputs(self, other, ordering, should_also_check_equality, p) ==
    LET lr == IF ordering = "Less" THEN <<self, other>> ELSE <<other, self>>
    IN  <<lr[1], IF should_also_check_equality THEN (lr[2] + 1) % p ELSE lr[2]>>

enforce_cmp(self, other, ordering, should_also_check_equality, p) ==
    LET lr == process_cmp_inputs(self, other, ordering, should_also_check_equality, p)
    IN  enforce_smaller_than(lr[1], lr[2], p)

----------------------------------------------------------------------------
(* BoundCheckCircuit::generate_constraints *)

EmptyCS(mode) == [mode |-> mode, allocs |-> << >>, instance |-> << >>,
                  witness |-> << >>, constraints |-> << >>]

Alloc(c, name, value, mode) ==
    LET c1 == [c EXCEPT !.allocs = Append(@, [name |-> name, mode |-> mode])]
    IN  IF mode = "Input"
        THEN [c1 EXCEPT !.instance = Append(@, [name |-> name, value |-> value])]
        ELSE [c1 EXCEPT !.witness = Append(@, [name |-> name, value |-> value])]

new_variable_always_evaluates(c, name, f, mode) ==
    IF ~IsSome(f) THEN [res |-> AssignmentMissing, cs |-> c]
    ELSE [res |-> Ok, cs |-> Alloc(c, name, f, mode)]

(* FpVar::new_variable: in setup mode the value closure is not called *)
new_variable(c, name, f, mode) ==
    IF c.mode = "Setup" THEN [res |-> Ok, cs |-> Alloc(c, name, None, mode)]
    ELSE IF ~IsSome(f) THEN [res |-> AssignmentMissing, cs |-> c]
    ELSE [res |-> Ok, cs |-> Alloc(c, name, f, mode)]

Cmp(self, other, ordering, eq) ==
    [self |-> self, other |-> other, ordering |-> ordering,
     should_also_check_equality |-> eq]

BoundConstraintsNonStrict ==
    << Cmp("value", "max", "Less", TRUE), Cmp("value", "min", "Greater", TRUE) >>

BoundConstraintsBothMax ==
    << Cmp("value", "max", "Less", FALSE), Cmp("value", "max", "Greater", FALSE) >>

(* lines 43-46: val.enforce_cmp(&max, Less, false); val.enforce_cmp(&min, Greater, false) *)
BoundConstraints ==
    << Cmp("value", "max", "Less", FALSE), Cmp("value", "min", "Greater", FALSE) >>

generate_constraints_inputs_first(c, cs0) ==
    LET a1 == new_variable(cs0, "min", c.min, "Input")
        a2 == new_variable(a1.cs, "max", c.max, "Input")
        a3 == new_variable(a2.cs, "value", c.value, "Witness")
    IN  IF a1.res # Ok THEN a1
        ELSE IF a2.res # Ok THEN a2
        ELSE IF a3.res # Ok THEN a3
        ELSE [res |-> Ok, cs |-> [a3.cs EXCEPT !.constraints = BoundConstraints]]

generate_constraints(c, cs0) ==
    LET a1 == new_variable(cs0, "value", c.value, "Witness")
        a2 == new_variable(a1.cs, "min", c.min, "Input")
        a3 == new_variable(a2.cs, "max", c.max, "Input")
    IN  IF a1.res # Ok THEN a1
        ELSE IF a2.res # Ok THEN a2
        ELSE IF a3.res # Ok THEN a3
        ELSE [res |-> Ok, cs |-> [a3.cs EXCEPT !.constraints = BoundConstraints]]

(* ConstraintSystem::is_satisfied on a proving-mode system *)
ValueOf(c, name) ==
    LET all == c.instance \o c.witness
        i == CHOOSE k \in 1..Len(all) : all[k].name = name
    IN  Unwrap(all[i].value)

is_satisfied(c, p) ==
    \A k \in 1..Len(c.constraints) :
        LET e == c.constraints[k]
        IN  enforce_cmp(ValueOf(c, e.self), ValueOf(c, e.other), e.ordering,
                        e.should_also_check_equality, p)

EmptyCircuit == [min |-> None, max |-> None, value |-> None]


----------------------------------------------------------------------------
(* Group G1, symbolically: an element is its coefficient vector over the    *)
(* independent bases of the verifying key (ids 0..n-1 for gamma_abc_g1, n   *)
(* for eta_gamma_inv_g1); scalars are taken modulo the field.               *)

G1Gen(ids, b) == [i \in ids |-> IF i = b THEN 1 ELSE 0]
G1Zero(ids) == [i \in ids |-> 0]
G1Add(x, y, p) == [i \in DOMAIN x |-> (x[i] + y[i]) % p]
G1Mul(x, k, p) == [i \in DOMAIN x |-> (x[i] * k) % p]

Min2(a, b) == IF a <= b THEN a ELSE b

RECURSIVE msm_upto(_, _, _, _, _)
msm_upto(bases, scalars, n, zero, p) ==
    IF n = 0 THEN zero
    ELSE G1Add(msm_upto(bases, scalars, n - 1, zero, p),
               G1Mul(bases[n], scalars[n], p), p)

(* VariableBaseMSM::multi_scalar_mul: pairs bases and scalars up to the shorter *)
multi_scalar_mul(bases, scalars, zero, p) ==
    msm_upto(bases, scalars, Min2(Len(bases), Len(scalars)), zero, p)

----------------------------------------------------------------------------
(* legogroth16, as the ideal functionality of the specification *)

generate_random_parameters(c, commit_count) ==
    LET g == generate_constraints(c, EmptyCS("Setup"))
        n == 1 + Len(g.cs.instance) + commit_count
        ids == 0..n
    IN  IF g.res # Ok THEN [res |-> g.res, cs |-> None, params |-> None]
        ELSE [res |-> Ok, cs |-> Some(g.cs),
              params |-> Some([vk |-> [gamma_abc_g1 |-> [i \in 1..n |-> G1Gen(ids, i - 1)],
                                       eta_gamma_inv_g1 |-> G1Gen(ids, n)],
                               num_instance_variables |-> 1 + Len(g.cs.instance),
                               commit_witness_count |-> commit_count])]

Commitment(vk, public_inputs_count, committed, r, p) ==
    LET bases == SubSeq(vk.gamma_abc_g1, 2 + public_inputs_count, Len(vk.gamma_abc_g1))
        zero == G1Zero(DOMAIN vk.eta_gamma_inv_g1)
    IN  G1Add(multi_scalar_mul(bases, committed, zero, p),
              G1Mul(vk.eta_gamma_inv_g1, r, p), p)

create_random_proof(c, r, prm, p) ==
    LET g == generate_constraints(c, EmptyCS("Prove"))
        committed == [i \in 1..prm.commit_witness_count |-> Unwrap(g.cs.witness[i].value)]
    IN  IF g.res # Ok THEN [res |-> g.res, cs |-> None, proof |-> None]
        ELSE [res |-> Ok, cs |-> Some(g.cs),
              proof |-> Some([valid |-> is_satisfied(g.cs, p),
                              public_inputs |-> [i \in 1..Len(g.cs.instance) |->
                                                    Unwrap(g.cs.instance[i].value)],
                              d |-> Commitment(prm.vk, prm.num_instance_variables - 1,
                                               committed, r, p)])]

verify_proof(prf, public_inputs) ==
    IF prf.valid /\ prf.public_inputs = public_inputs THEN Ok ELSE "InvalidProof"

verify_witness_commitment_any_slot(vk, prf, public_inputs_count, ws, r, p) ==
    IF prf.d = Commitment(vk, Len(vk.gamma_abc_g1) - 1 - Len(ws), ws, r, p)
    THEN Ok ELSE "CommitmentMismatch"

verify_witness_commitment(vk, prf, public_inputs_count, ws, r, p) ==
    IF prf.d = Commitment(vk, public_inputs_count, ws, r, p)
    THEN Ok ELSE "CommitmentMismatch"


----------------------------------------------------------------------------
(* Signature collaborator (sig_setup, BBS+ verification), symbolically: a   *)
(* signature names its signer and the message vector it was issued over.    *)

Messages(m) ==
    [i \in 1..message_count |-> IF i \in {msg_idx + 1, msg_idx + 2} THEN m ELSE 0]

bbs_sig(m) == [signer |-> "issuer", messages |-> Messages(m)]

signature_verify(sig, msgs, public_key) ==
    sig.signer = public_key /\ sig.messages = msgs

----------------------------------------------------------------------------
(* proof_system: statements, witnesses, meta-statements and the composite   *)
(* proof, as the specification describes them.  WitnessRef (i, j) is        *)
(* 0-based as in the source; sequences here are 1-based.                    *)

PoKBBSSignatureG1Stmt(public_key) ==
    [kind |-> "PoKBBSSignatureG1", public_key |-> public_key,
     bases |-> << >>, commitment |-> None]

PedersenCommitmentStmt(bases, commitment) ==
    [kind |-> "PedersenCommitment", public_key |-> "",
     bases |-> bases, commitment |-> Some(commitment)]

PoKSignatureBBSG1Wit(sig, msgs) ==
    [kind |-> "PoKBBSSignatureG1", signature |-> Some(sig), slots |-> msgs]

PedersenCommitmentWit(committed) ==
    [kind |-> "PedersenCommitment", signature |-> None, slots |-> committed]

(* Whether a witness satisfies its statement in isolation *)
Satisfies(stmt, wit, p) ==
    /\ stmt.kind = wit.kind
    /\ IF stmt.kind = "PoKBBSSignatureG1"
       THEN signature_verify(Unwrap(wit.signature), wit.slots, stmt.public_key)
       ELSE /\ Len(stmt.bases) = Len(wit.slots)
            /\ Len(stmt.bases) > 0
            /\ multi_scalar_mul(stmt.bases, wit.slots,
                                G1Zero(DOMAIN stmt.bases[1]), p)
                 = Unwrap(stmt.commitment)

RefLeq(r, q) == r[1] < q[1] \/ (r[1] = q[1] /\ r[2] <= q[2])
LeastRef(S) == CHOOSE r \in S : \A q \in S : RefLeq(r, q)

(* The blinding of a witness slot: one per equality class, else its own *)
BlindingOf(meta, ref) ==
    IF \E E \in meta : ref \in E
    THEN LeastRef(UNION {E \in meta : ref \in E})
    ELSE ref

(* A Schnorr response blinding + challenge * value, symbolically *)
Response(meta, ref, value) == [blinding |-> BlindingOf(meta, ref), value |-> value]

ChallengeIgnoresContext(stmts, context, nonce) ==
    [statements |-> stmts, context |-> None, nonce |-> None]

(* The Fiat-Shamir challenge: an injective hash of every statement and the context *)
Challenge(stmts, context, nonce) ==
    [statements |-> stmts, context |-> context, nonce |-> nonce]

RefsValid(meta, lens) ==
    \A E \in meta : \A r \in E :
        /\ r[1] + 1 \in 1..Len(lens)
        /\ r[2] + 1 \in 1..lens[r[1] + 1]

ProofG1_new(spec, wits, nonce, p) ==
    IF \/ Len(spec.statements) # Len(wits)
       \/ ~RefsValid(spec.meta_statements, [i \in 1..Len(wits) |-> Len(wits[i].slots)])
    THEN [res |-> "MalformedSpec", proof |-> None]
    ELSE [res |-> Ok,
          proof |-> Some(
            [challenge |-> Challenge(spec.statements, spec.context, nonce),
             statement_proofs |->
                [i \in 1..Len(wits) |->
                    [valid |-> Satisfies(spec.statements[i], wits[i], p),
                     responses |->
                        [j \in 1..Len(wits[i].slots) |->
                            Response(spec.meta_statements, <<i - 1, j - 1>>,
                                     wits[i].slots[j])]]]])]

StatementVerifies(prf, spec, nonce, i) ==
    /\ prf.challenge = Challenge(spec.statements, spec.context, nonce)
    /\ prf.statement_proofs[i].valid

ResponseAt(prf, r) == prf.statement_proofs[r[1] + 1].responses[r[2] + 1]

MetaStatementHolds(prf, E) ==
    \A r \in E : \A q \in E : ResponseAt(prf, r) = ResponseAt(prf, q)

proof_verify_any_statement(prf, spec, nonce) ==
    IF \A i \in 1..Len(prf.statement_proofs) : ~StatementVerifies(prf, spec, nonce, i)
    THEN "InvalidProof"
    ELSE IF \E E \in spec.meta_statements : ~MetaStatementHolds(prf, E)
    THEN "MetaStatementUnsatisfied"
    ELSE Ok

proof_verify(prf, spec, nonce) ==
    IF \/ Len(spec.statements) # Len(prf.statement_proofs)
       \/ ~RefsValid(spec.meta_statements,
                     [i \in 1..Len(prf.statement_proofs) |->
                         Len(prf.statement_proofs[i].responses)])
    THEN "MalformedSpec"
    ELSE IF \E i \in 1..Len(prf.statement_proofs) : ~StatementVerifies(prf, spec, nonce, i)
    THEN "InvalidProof"
    ELSE IF \E E \in spec.meta_statements : ~MetaStatementHolds(prf, E)
    THEN "MetaStatementUnsatisfied"
    ELSE Ok


----------------------------------------------------------------------------
(* tests::bound_check_message, with its inputs drawn from small sets *)

public_inputs_count == 2

NoResult == "none"

Init ==
    /\ pc = "start"
    /\ field \in Moduli
    /\ msg_val \in Fr(field)
    /\ setup_res = NoResult
    /\ params = None
    /\ circuit = EmptyCircuit
    /\ cs = None
    /\ v = 0
    /\ prove_res = NoResult
    /\ zk_snark = None
    /\ open_q = None
    /\ open_res = NoResult
    /\ statements = << >>
    /\ meta_statements = {}
    /\ proof_spec = None
    /\ witnesses = None
    /\ proof = None
    /\ snark_q = None
    /\ snark_res = NoResult
    /\ agg_q = None
    /\ agg_res = NoResult

(* lines 86-98: setup over the empty circuit *)
Setup ==
    /\ pc = "start"
    /\ LET r == generate_random_parameters(EmptyCircuit, commit_witness_count)
       IN  /\ setup_res' = r.res
           /\ params' = r.params
           /\ cs' = r.cs
           /\ pc' = IF r.res = Ok THEN "setup_done" ELSE "panicked"
    /\ UNCHANGED <<field, msg_val, circuit, v, prove_res, zk_snark, open_q, open_res,
                   statements, meta_statements, proof_spec, witnesses, proof,
                   snark_q, snark_res, agg_q, agg_res>>

(* lines 101-117: randomness, the circuit instance and create_random_proof.  *)
(* An unsatisfied system either trips the prover's debug assertion or yields *)
(* a proof that cannot verify, depending on the build.                       *)
Prove ==
    /\ pc = "setup_done"
    /\ \E r \in 1..MaxBlind,
          mn \in OptionOf(Fr(field)),
          mx \in OptionOf(Fr(field)),
          val \in {None, Some(msg_val), Some((msg_val + 1) % field)},
          debug_build \in BOOLEAN :
          LET c == [min |-> mn, max |-> mx, value |-> val]
              res == create_random_proof(c, r, Unwrap(params), field)
          IN  /\ v' = r
              /\ circuit' = c
              /\ cs' = res.cs
              /\ IF res.res # Ok
                 THEN /\ prove_res' = res.res
                      /\ zk_snark' = None
                      /\ pc' = "panicked"
                 ELSE IF debug_build /\ ~Unwrap(res.proof).valid
                 THEN /\ prove_res' = "ConstraintUnsatisfied"
                      /\ zk_snark' = None
                      /\ pc' = "panicked"
                 ELSE /\ prove_res' = Ok
                      /\ zk_snark' = res.proof
                      /\ pc' = "proved"
    /\ UNCHANGED <<field, msg_val, setup_res, params, open_q, open_res, statements,
                   meta_statements, proof_spec, witnesses, proof, snark_q, snark_res,
                   agg_q, agg_res>>

(* lines 119-125: the prover's check of the commitment opening *)
CheckCommitment ==
    /\ pc = "proved"
    /\ \E cnt \in 0..(Len(Unwrap(params).vk.gamma_abc_g1) - 1),
          x \in Fr(field),
          r \in 1..MaxBlind :
          LET res == verify_witness_commitment(Unwrap(params).vk, Unwrap(zk_snark),
                                               cnt, <<x>>, r, field)
              expected == cnt = public_inputs_count /\ x = Unwrap(circuit.value) /\ r = v
          IN  /\ open_q' = Some([public_inputs_count |-> cnt, value |-> x,
                                 randomness |-> r])
              /\ open_res' = res
              /\ pc' = IF expected /\ res # Ok THEN "panicked" ELSE "checked"
    /\ UNCHANGED <<field, msg_val, setup_res, params, circuit, cs, v, prove_res, zk_snark,
                   statements, meta_statements, proof_spec, witnesses, proof,
                   snark_q, snark_res, agg_q, agg_res>>

WitnessEqualityRandomnessSlot == { <<0, msg_idx>>, <<1, 1>> }

(* lines 147-151: EqualWitnesses(vec![(0, msg_idx), (1, 0)]) *)
WitnessEquality == { <<0, msg_idx>>, <<1, 0>> }

(* lines 127-151: bases, commitment, the two statements and the equality *)
BuildStatements ==
    /\ pc = "checked"
    /\ LET vk == Unwrap(params).vk
           bases == <<vk.gamma_abc_g1[1 + (1 + public_inputs_count)], vk.eta_gamma_inv_g1>>
       IN  statements' = << PoKBBSSignatureG1Stmt("issuer"),
                            PedersenCommitmentStmt(bases, Unwrap(zk_snark).d) >>
    /\ meta_statements' = { WitnessEquality }
    /\ open_q' = None
    /\ open_res' = NoResult
    /\ pc' = "stmts"
    /\ UNCHANGED <<field, msg_val, setup_res, params, circuit, cs, v, prove_res, zk_snark,
                   proof_spec, witnesses, proof, snark_q, snark_res, agg_q, agg_res>>

(* lines 153-157 *)
FixSpec ==
    /\ pc = "stmts"
    /\ proof_spec' = Some([statements |-> statements,
                           meta_statements |-> meta_statements,
                           context |-> None])
    /\ pc' = "spec_fixed"
    /\ UNCHANGED <<field, msg_val, setup_res, params, circuit, cs, v, prove_res, zk_snark,
                   open_q, open_res, statements, meta_statements, witnesses, proof,
                   snark_q, snark_res, agg_q, agg_res>>

(* lines 159-169: the witnesses; each may be the right one or off by one *)
BindWitnesses ==
    /\ pc = "spec_fixed"
    /\ \E wm \in {msg_val, (msg_val + 1) % field},
          wx \in {Unwrap(circuit.value), (Unwrap(circuit.value) + 1) % field} :
          witnesses' = Some(<< PoKSignatureBBSG1Wit(bbs_sig(msg_val), Messages(wm)),
                               PedersenCommitmentWit(<<wx, v>>) >>)
    /\ pc' = "wit_bound"
    /\ UNCHANGED <<field, msg_val, setup_res, params, circuit, cs, v, prove_res, zk_snark,
                   open_q, open_res, statements, meta_statements, proof_spec, proof,
                   snark_q, snark_res, agg_q, agg_res>>

BuildProofBeforeWitnesses ==
    /\ pc = "spec_fixed"
    /\ LET r == ProofG1_new(Unwrap(proof_spec),
                            << PoKSignatureBBSG1Wit(bbs_sig(msg_val), Messages(msg_val)),
                               PedersenCommitmentWit(<<Unwrap(circuit.value), v>>) >>,
                            None, field)
       IN  /\ proof' = r.proof
           /\ pc' = IF r.res = Ok THEN "constructed" ELSE "panicked"
    /\ UNCHANGED <<field, msg_val, setup_res, params, circuit, cs, v, prove_res, zk_snark,
                   open_q, open_res, statements, meta_statements, proof_spec, witnesses,
                   snark_q, snark_res, agg_q, agg_res>>

(* line 171 *)
BuildProof ==
    /\ pc = "wit_bound"
    /\ LET r == ProofG1_new(Unwrap(proof_spec), Unwrap(witnesses), None, field)
       IN  /\ proof' = r.proof
           /\ pc' = IF r.res = Ok THEN "constructed" ELSE "panicked"
    /\ UNCHANGED <<field, msg_val, setup_res, params, circuit, cs, v, prove_res, zk_snark,
                   open_q, open_res, statements, meta_statements, proof_spec, witnesses,
                   snark_q, snark_res, agg_q, agg_res>>

(* line 174: the verifier's public inputs *)
VerifySnark ==
    /\ pc = "constructed"
    /\ \E a \in Fr(field), b \in Fr(field) :
          LET res == verify_proof(Unwrap(zk_snark), <<a, b>>)
          IN  /\ snark_q' = Some(<<a, b>>)
              /\ snark_res' = res
              /\ pc' = IF res = Ok THEN "snark_ok" ELSE "panicked"
    /\ UNCHANGED <<field, msg_val, setup_res, params, circuit, cs, v, prove_res, zk_snark,
                   open_q, open_res, statements, meta_statements, proof_spec, witnesses,
                   proof, agg_q, agg_res>>

(* The ProofSpecs a verifier may hold: the prover's, or one that differs in *)
(* its context, its statement order or its equality sets.                   *)
VerifierSpecs(spec) ==
    { spec,
      [spec EXCEPT !.context = Some("other")],
      [spec EXCEPT !.statements = <<spec.statements[2], spec.statements[1]>>],
      [spec EXCEPT !.meta_statements = {}],
      [spec EXCEPT !.meta_statements = { { <<0, msg_idx + 1>>, <<1, 0>> } }] }

(* line 176 *)
VerifyAggregate ==
    /\ pc = "snark_ok"
    /\ \E s \in VerifierSpecs(Unwrap(proof_spec)) :
          LET res == proof_verify(Unwrap(proof), s, None)
          IN  /\ agg_q' = Some(s)
              /\ agg_res' = res
              /\ pc' = IF res = Ok THEN "done" ELSE "panicked"
    /\ UNCHANGED <<field, msg_val, setup_res, params, circuit, cs, v, prove_res, zk_snark,
                   open_q, open_res, statements, meta_statements, proof_spec, witnesses,
                   proof, snark_q, snark_res>>

Next ==
    \/ Setup
    \/ Prove
    \/ CheckCommitment
    \/ BuildStatements
    \/ FixSpec
    \/ BindWitnesses
    \/ BuildProof
    \/ VerifySnark
    \/ VerifyAggregate

Spec == Init /\ [][Next]_vars


----------------------------------------------------------------------------
(* Vocabulary of the properties *)

AllPresent == IsSome(circuit.min) /\ IsSome(circuit.max) /\ IsSome(circuit.value)
Proving == pc \notin {"start", "setup_done"}
cmin == Unwrap(circuit.min)
cmax == Unwrap(circuit.max)
cvalue == Unwrap(circuit.value)
InBounds == cmin < cvalue /\ cvalue < cmax
InGadgetRange == cmin <= (field - 1) \div 2 /\ cvalue <= (field - 1) \div 2
                 /\ cmax <= (field - 1) \div 2

(* The proving-mode constraint system was synthesized and is (un)satisfied *)
Synthesized == Proving /\ prove_res \in {Ok, "ConstraintUnsatisfied"}
Satisfied == prove_res = Ok /\ Unwrap(zk_snark).valid

HonestWitnesses ==
    witnesses = Some(<< PoKSignatureBBSG1Wit(bbs_sig(msg_val), Messages(msg_val)),
                        PedersenCommitmentWit(<<cvalue, v>>) >>)

SignedMessage == Unwrap(witnesses)[1].slots[msg_idx + 1]
CommittedValue == Unwrap(witnesses)[2].slots[1]

----------------------------------------------------------------------------
(* C1 as stated: with min, max and value all present, the constraint system *)
(* is satisfiable iff min < value < max as integers.                        *)
C1_Original ==
    (Synthesized /\ AllPresent) => (Satisfied <=> InBounds)

(* C1 amended: with min, max and value all present, the constraint system   *)
(* is satisfiable iff min < value < max as integers and all three are at    *)
(* most (p-1)/2; equality on either boundary makes it unsatisfiable.        *)
C1_Amended ==
    (Synthesized /\ AllPresent) =>
        /\ Satisfied <=> (InBounds /\ InGadgetRange)
        /\ (cvalue = cmin \/ cvalue = cmax) => ~Satisfied

C1_Witness ==
    /\ pc = "proved" /\ Satisfied
    /\ cmin + 1 = cvalue /\ cvalue + 1 = cmax

(* C2: verify_proof accepts only when min < value < max holds for the       *)
(* public inputs it is given; a proof for a boundary value is never         *)
(* accepted, and a proof made for other bounds is rejected.                 *)
C2_Soundness ==
    /\ snark_res = Ok =>
          /\ Unwrap(snark_q)[1] < cvalue /\ cvalue < Unwrap(snark_q)[2]
          /\ Unwrap(snark_q) = <<cmin, cmax>>
    /\ (Proving /\ AllPresent /\ (cvalue = cmin \/ cvalue = cmax)) =>
          (prove_res # Ok \/ snark_res # Ok)

C2_Witness ==
    /\ snark_res = "InvalidProof" /\ IsSome(zk_snark)
    /\ cvalue = cmin /\ Unwrap(snark_q) = <<cmin, cmax>>

(* What completeness promises of a run with the given precondition: the     *)
(* proof is made, verifies against [min, max], and the composite proof over *)
(* the matching statements and witnesses verifies against the same spec.    *)
Completes(pre) ==
    (Proving /\ AllPresent /\ pre) =>
        /\ prove_res = Ok
        /\ snark_q = Some(<<cmin, cmax>>) => snark_res = Ok
        /\ (agg_q = proof_spec /\ IsSome(agg_q) /\ HonestWitnesses /\ cvalue = msg_val)
              => agg_res = Ok

(* C3 as stated: for every min < value < max, prove then verify succeeds    *)
(* and the composite proof verifies.                                        *)
C3_Original == Completes(InBounds)

(* C3 amended: for every min < value < max with all three at most (p-1)/2,  *)
(* prove then verify succeeds and the composite proof verifies.             *)
C3_Amended == Completes(InBounds /\ InGadgetRange)

C3_Witness ==
    /\ pc = "done" /\ agg_q = proof_spec /\ HonestWitnesses /\ cvalue = msg_val
    /\ snark_q = Some(<<cmin, cmax>>)

ExactOpening ==
    Unwrap(open_q) = [public_inputs_count |-> public_inputs_count,
                      value |-> cvalue, randomness |-> v]

C5_Linking ==
    (IsSome(agg_q) /\ agg_q = proof_spec /\ HonestWitnesses) =>
        /\ SignedMessage = CommittedValue => agg_res = Ok
        /\ SignedMessage # CommittedValue => agg_res = "MetaStatementUnsatisfied"

C5_Witness ==
    /\ agg_res = "MetaStatementUnsatisfied" /\ agg_q = proof_spec /\ HonestWitnesses
    /\ SignedMessage # CommittedValue

Weakens(q, spec) ==
    /\ q.statements = spec.statements
    /\ q.context = spec.context
    /\ \A E \in q.meta_statements : \E F \in spec.meta_statements : E \subseteq F

C7_AssignmentMissing ==
    /\ pc # "start" =>
          /\ setup_res = Ok /\ IsSome(params)
          /\ pc = "setup_done" =>
                /\ IsSome(cs)
                /\ \A i \in 1..Len(Unwrap(cs).allocs) :
                      (Unwrap(cs).instance \o Unwrap(cs).witness)[i].value = None
    /\ Proving =>
          /\ ~AllPresent => (prove_res = AssignmentMissing /\ zk_snark = None)
          /\ AllPresent => prove_res # AssignmentMissing

C7_Witness ==
    /\ pc = "panicked" /\ prove_res = AssignmentMissing
    /\ IsSome(circuit.value) /\ IsSome(circuit.min) /\ ~IsSome(circuit.max)

(* C8: the composite proof is constructed only after the ProofSpec is fixed *)
(* and the witnesses are bound, it is verified or rejected only after it is *)
(* constructed, and the ProofSpec never changes once fixed.                 *)
C8_Order ==
    /\ IsSome(witnesses) => IsSome(proof_spec)
    /\ IsSome(proof) => (IsSome(proof_spec) /\ IsSome(witnesses))
    /\ agg_res # NoResult => IsSome(proof)

C8_Lifecycle ==
    /\ []C8_Order
    /\ [][IsSome(proof_spec) => proof_spec' = proof_spec]_vars

C8_Witness ==
    pc = "done" /\ agg_res = Ok /\ IsSome(proof) /\ IsSome(witnesses)

(* C9: verification returns Ok only if every statement is satisfied by its  *)
(* witness and every equality of the verifier's spec holds between the      *)
(* referenced witness slots.                                                *)
C9_FailsClosed ==
    agg_res = Ok =>
        LET q == Unwrap(agg_q)
            w == Unwrap(witnesses)
        IN  /\ \A i \in 1..Len(q.statements) : Satisfies(q.statements[i], w[i], field)
            /\ \A E \in q.meta_statements : \A r \in E : \A t \in E :
                  w[r[1] + 1].slots[r[2] + 1] = w[t[1] + 1].slots[t[2] + 1]

C9_Witness ==
    /\ agg_res = "InvalidProof" /\ agg_q = proof_spec
    /\ SignedMessage # msg_val /\ CommittedValue = cvalue /\ SignedMessage = CommittedValue

=============================================================================
